---------------------------- MODULE Spec2Model ----------------------------
(***************************************************************************)
(* Model of the API-reference tooling:                                     *)
(*   update-api.js               the Driver (src/unnamed/part_000)         *)
(*   scripts/strip-deprecated.js the Deprecation Filter                    *)
(*   scripts/schema-to-mintlify.js the Schema Renderer                     *)
(*                                                                         *)
(* A parsed YAML document is a tagged tree:                                *)
(*   [k |-> "map", m |-> << <<key, node>>, ... >>]  mapping, insertion order*)
(*   [k |-> "seq", e |-> << node, ... >>]           sequence               *)
(*   [k |-> "str", s |-> << token, ... >>]          string                 *)
(*   [k |-> "bool", b |-> TRUE/FALSE], [k |-> "num", n |-> Int],           *)
(*   [k |-> "null"], and [k |-> "undef"] for JavaScript's undefined.       *)
(* A string is the sequence of its tokens: the separators "/", " ", "\n",  *)
(* "\t" are tokens of their own and every other token is a run of          *)
(* characters holding none of them, so that the code's split on "/" and   *)
(* its whitespace normalisation are computed, not assumed.                 *)
(***************************************************************************)
EXTENDS Integers, Sequences, FiniteSets, TLC

\* ------------------------------------------------------------------ values

Str(toks) == [k |-> "str", s |-> toks]
S(w) == Str(<<w>>)
Bool(b) == [k |-> "bool", b |-> b]
Num(n) == [k |-> "num", n |-> n]
Null == [k |-> "null"]
Undef == [k |-> "undef"]
Arr(elems) == [k |-> "seq", e |-> elems]
Map(entries) == [k |-> "map", m |-> entries]

IsMap(v) == v.k = "map"
IsArr(v) == v.k = "seq"
IsStr(v) == v.k = "str"
\* typeof v === 'object' && v !== null
IsObject(v) == v.k = "map" \/ v.k = "seq"

\* JavaScript truthiness
Truthy(v) ==
  CASE v.k = "undef" -> FALSE
    [] v.k = "null" -> FALSE
    [] v.k = "bool" -> v.b
    [] v.k = "num" -> v.n # 0
    [] v.k = "str" -> v.s # <<>>
    [] OTHER -> TRUE

Keys(v) == [i \in 1..Len(v.m) |-> v.m[i][1]]
KeySet(v) == {v.m[i][1] : i \in 1..Len(v.m)}
\* 'key' in v, for a mapping or a sequence (a sequence has no string key here)
Has(v, key) == IsMap(v) /\ key \in KeySet(v)
\* v[key] / v?.[key]: undefined when v is no mapping or the key is absent
Get(v, key) ==
  IF Has(v, key)
  THEN v.m[CHOOSE i \in 1..Len(v.m) : v.m[i][1] = key][2]
  ELSE Undef
\* v[key] = val on a mapping: in place when the key exists, appended otherwise
Put(v, key, val) ==
  IF Has(v, key)
  THEN Map([i \in 1..Len(v.m) |-> IF v.m[i][1] = key THEN <<key, val>> ELSE v.m[i]])
  ELSE Map(Append(v.m, <<key, val>>))
\* delete v[key]
Del(v, key) ==
  IF IsMap(v) THEN Map(SelectSeq(v.m, LAMBDA p : p[1] # key)) ELSE v

\* the characters of a string, as one TLA+ string
RECURSIVE Concat(_)
Concat(toks) == IF toks = <<>> THEN "" ELSE toks[1] \o Concat(Tail(toks))

Digit(d) == <<"0", "1", "2", "3", "4", "5", "6", "7", "8", "9">>[d + 1]
\* String(n) for an integer
RECURSIVE NumToString(_)
NumToString(n) ==
  IF n < 0 THEN "-" \o NumToString(0 - n)
  ELSE IF n < 10 THEN Digit(n)
  ELSE NumToString(n \div 10) \o Digit(n % 10)

RefPrefix == <<"#", "/", "components", "/", "schemas", "/">>
\* the string "#/components/schemas/<name>"
Ref(name) == Str(RefPrefix \o <<name>>)

\* -------------------------------------------------- strip-deprecated.js

\* ref.match(/^#\/components\/schemas\/(.+)$/): the name, or "" for null
getSchemaNameFromRef(ref) ==
  IF ~Truthy(ref) \/ ~IsStr(ref) THEN ""
  ELSE IF Len(ref.s) > Len(RefPrefix)
          /\ SubSeq(ref.s, 1, Len(RefPrefix)) = RefPrefix
          /\ \A i \in 1..Len(ref.s) : ref.s[i] # "\n"
       THEN Concat(SubSeq(ref.s, Len(RefPrefix) + 1, Len(ref.s)))
       ELSE ""

\* a faulty variant of lines 39-48: only a direct $ref is looked at
isRefToDeprecatedSchemaDirect(val, deprecatedSchemaNames) ==
  IF ~Truthy(val) \/ ~IsMap(val) \/ deprecatedSchemaNames = {} THEN FALSE
  ELSE LET directRef == getSchemaNameFromRef(Get(val, "$ref"))
       IN directRef # "" /\ directRef \in deprecatedSchemaNames

isRefToDeprecatedSchema(val, deprecatedSchemaNames) ==
  IF ~Truthy(val) \/ ~IsMap(val) \/ deprecatedSchemaNames = {} THEN FALSE
  ELSE LET directRef == getSchemaNameFromRef(Get(val, "$ref"))
           items == Get(val, "items")
           itemsRef == getSchemaNameFromRef(Get(items, "$ref"))
       IN \/ directRef # "" /\ directRef \in deprecatedSchemaNames
          \/ /\ Get(val, "type") = S("array")
             /\ Truthy(items) /\ IsObject(items) /\ Truthy(Get(items, "$ref"))
             /\ itemsRef # "" /\ itemsRef \in deprecatedSchemaNames

buildDeprecatedSchemaNames(spec) ==
  LET schemas == Get(Get(spec, "components"), "schemas")
  IN IF ~Truthy(schemas) \/ ~IsObject(schemas) THEN {}
     ELSE IF IsArr(schemas)
     THEN \* Object.entries of a sequence: its indices, as strings
          {NumToString(i - 1) : i \in {j \in 1..Len(schemas.e) :
             Get(schemas.e[j], "deprecated") = Bool(TRUE)}}
     ELSE {name \in KeySet(schemas) :
             LET schema == Get(schemas, name)
             IN Truthy(schema) /\ IsObject(schema)
                /\ Get(schema, "deprecated") = Bool(TRUE)}

\* the loop's two `continue` tests on one value of a mapping
Dropped(val, deprecatedSchemaNames) ==
  \/ Truthy(val) /\ IsMap(val) /\ Get(val, "deprecated") = Bool(TRUE)
  \/ isRefToDeprecatedSchema(val, deprecatedSchemaNames)

\* delete result[key].deprecated, when result[key] is an object holding the key
DeleteDeprecatedKey(kept) ==
  IF Truthy(kept) /\ IsObject(kept) /\ Has(kept, "deprecated")
  THEN Del(kept, "deprecated")
  ELSE kept

RECURSIVE stripDeprecated(_, _)
stripDeprecated(value, deprecatedSchemaNames) ==
  IF ~IsObject(value) THEN value
  ELSE IF IsArr(value)
  THEN Arr([i \in 1..Len(value.e) |->
              stripDeprecated(value.e[i], deprecatedSchemaNames)])
  ELSE LET keep == SelectSeq(value.m,
                     LAMBDA p : ~Dropped(p[2], deprecatedSchemaNames))
       IN Map([i \in 1..Len(keep) |->
                 <<keep[i][1],
                   DeleteDeprecatedKey(
                     stripDeprecated(keep[i][2], deprecatedSchemaNames))>>])

OPERATION_METHODS ==
  {"get", "put", "post", "delete", "options", "head", "patch", "trace"}

\* a faulty variant of lines 100-102: the three statements chained by `else`,
\* so that one run takes only the first step that is missing
WideOpElseChain(op) ==
  LET xm == Get(op, "x-mint")
      md == Get(xm, "metadata")
  IN IF ~Truthy(xm) THEN Put(op, "x-mint", Map(<<>>))
     ELSE IF ~Truthy(md) THEN Put(op, "x-mint", Put(xm, "metadata", Map(<<>>)))
     ELSE Put(op, "x-mint", Put(xm, "metadata", Put(md, "mode", S("wide"))))

\* a faulty variant of lines 100-102: x-mint assigned as a whole
WideOpOverwrite(op) ==
  Put(op, "x-mint", Map(<< <<"metadata", Map(<< <<"mode", S("wide")>> >>)>> >>))

\* lines 100-102 on one operation object
WideOp(op) ==
  LET xm0 == Get(op, "x-mint")
      xm1 == IF Truthy(xm0) THEN xm0 ELSE Map(<<>>)
      md0 == Get(xm1, "metadata")
      md1 == IF Truthy(md0) THEN md0 ELSE Map(<<>>)
  IN Put(op, "x-mint", Put(xm1, "metadata", Put(md1, "mode", S("wide"))))

WidePathItem(pathItem) ==
  IF ~Truthy(pathItem) \/ ~IsMap(pathItem) THEN pathItem
  ELSE Map([i \in 1..Len(pathItem.m) |->
              LET key == pathItem.m[i][1]
                  op == pathItem.m[i][2]
              IN IF key \in OPERATION_METHODS /\ Truthy(op) /\ IsMap(op)
                 THEN <<key, WideOp(op)>>
                 ELSE pathItem.m[i]])

ensureWideMode(spec) ==
  LET paths == Get(spec, "paths")
  IN IF ~Truthy(paths) \/ ~IsObject(paths) THEN spec
     ELSE IF IsArr(paths)
     THEN Put(spec, "paths",
              Arr([i \in 1..Len(paths.e) |-> WidePathItem(paths.e[i])]))
     ELSE Put(spec, "paths",
              Map([i \in 1..Len(paths.m) |->
                     <<paths.m[i][1], WidePathItem(paths.m[i][2])>>]))

\* main, lines 115-116: the document after stripDeprecated
StripStep(doc) == stripDeprecated(doc, buildDeprecatedSchemaNames(doc))
\* main, lines 115-117: the document main writes
Filter(doc) == ensureWideMode(StripStep(doc))

\* ------------------------------------------------ schema-to-mintlify.js

\* String(v) / `${v}` of a scalar; join() gives "" for null and undefined
ToStr(v) ==
  CASE v.k = "str" -> Concat(v.s)
    [] v.k = "bool" -> IF v.b THEN "true" ELSE "false"
    [] v.k = "num" -> NumToString(v.n)
    [] v.k = "null" -> "null"
    [] v.k = "undef" -> "undefined"
    [] OTHER -> "[object Object]"

\* ref.replace("#/", "").split("/"), given that ref starts with "#/": the keys
\* between the "/" tokens
RECURSIVE SplitSlash(_, _)
SplitSlash(toks, cur) ==
  IF toks = <<>> THEN <<cur>>
  ELSE IF toks[1] = "/" THEN <<cur>> \o SplitSlash(Tail(toks), "")
  ELSE SplitSlash(Tail(toks), cur \o toks[1])

RECURSIVE Walk(_, _)
Walk(current, parts) ==
  IF parts = <<>> THEN current
  ELSE LET next == Get(current, parts[1])
       IN IF next = Undef THEN Null ELSE Walk(next, Tail(parts))

\* null is Null
resolveRef(spec, ref) ==
  IF ~Truthy(ref) \/ ~IsStr(ref) THEN Null
  ELSE IF ~(Len(ref.s) >= 2 /\ ref.s[1] = "#" /\ ref.s[2] = "/") THEN Null
  ELSE Walk(spec, SplitSlash(SubSeq(ref.s, 3, Len(ref.s)), ""))

\* ref.match(/#\/components\/schemas\/(.+)/), unanchored: the first place the
\* prefix stands, the name running to the end of its line; "" for null
getRefName(ref) ==
  IF ~Truthy(ref) \/ ~IsStr(ref) THEN ""
  ELSE LET n == Len(RefPrefix)
           starts == {i \in 1..Len(ref.s) :
                        /\ i + n <= Len(ref.s)
                        /\ SubSeq(ref.s, i, i + n - 1) = RefPrefix
                        /\ ref.s[i + n] # "\n"}
       IN IF starts = {} THEN ""
          ELSE LET i == CHOOSE j \in starts : \A l \in starts : j <= l
                   rest == SubSeq(ref.s, i + n, Len(ref.s))
                   nl == {j \in 1..Len(rest) : rest[j] = "\n"}
                   stop == IF nl = {} THEN Len(rest)
                           ELSE (CHOOSE j \in nl : \A l \in nl : j <= l) - 1
               IN Concat(SubSeq(rest, 1, stop))

\* a schema name as a document string ("" is null)
NameNode(name) == IF name = "" THEN Null ELSE S(name)

resolveSchema(spec, schema) ==
  IF ~Truthy(schema) THEN Null
  ELSE IF Truthy(Get(schema, "$ref"))
  THEN LET resolved == resolveRef(spec, Get(schema, "$ref"))
       IN IF Truthy(resolved)
          THEN Put(IF IsMap(resolved) THEN resolved ELSE Map(<<>>),
                   "__refName", NameNode(getRefName(Get(schema, "$ref"))))
          ELSE schema
  ELSE schema

\* Array.isArray(type) ? type.filter(t => t !== "null")[0] : type
RawType(schema) ==
  LET type == Get(schema, "type")
  IN IF IsArr(type)
     THEN LET rest == SelectSeq(type.e, LAMBDA t : t # S("null"))
          IN IF rest = <<>> THEN Undef ELSE rest[1]
     ELSE type

\* schema.enum.slice(0, 5).join(" | ")
RECURSIVE JoinBar(_)
JoinBar(elems) ==
  IF elems = <<>> THEN ""
  ELSE LET one == IF elems[1].k \in {"null", "undef"} THEN "" ELSE ToStr(elems[1])
       IN IF Len(elems) = 1 THEN one ELSE one \o " | " \o JoinBar(Tail(elems))

ENUM_SHOWN == 5

\* a faulty variant of lines 85-99: only inline items count as an object
ArrayTypeStringInlineOnly(spec, schema) ==
  LET items0 == Get(schema, "items")
      items == IF Truthy(items0) THEN items0 ELSE Map(<<>>)
      isRef == Truthy(Get(items, "$ref"))
      itemRef == IF isRef THEN getRefName(Get(items, "$ref")) ELSE ""
      itemResolved == IF isRef THEN resolveRef(spec, Get(items, "$ref")) ELSE items
      isItemObject == /\ ~isRef
                      /\ Get(items, "type") = S("object")
                      /\ Truthy(Get(items, "properties"))
      itemType == IF itemRef # "" THEN itemRef
                  ELSE IF IsStr(Get(itemResolved, "type"))
                       THEN ToStr(Get(itemResolved, "type"))
                       ELSE "object"
      format == IF Truthy(Get(itemResolved, "format"))
                THEN " (" \o ToStr(Get(itemResolved, "format")) \o ")"
                ELSE ""
  IN IF isItemObject THEN "array of object"
     ELSE "array of " \o itemType \o format

\* lines 85-99: the type string of an array schema
ArrayTypeString(spec, schema) ==
  LET items0 == Get(schema, "items")
      items == IF Truthy(items0) THEN items0 ELSE Map(<<>>)
      isRef == Truthy(Get(items, "$ref"))
      itemRef == IF isRef THEN getRefName(Get(items, "$ref")) ELSE ""
      itemResolved == IF isRef THEN resolveRef(spec, Get(items, "$ref")) ELSE items
      isItemObject == /\ Get(itemResolved, "type") = S("object")
                      /\ Truthy(Get(itemResolved, "properties"))
      itemType == IF itemRef # "" THEN itemRef
                  ELSE IF IsStr(Get(itemResolved, "type"))
                       THEN ToStr(Get(itemResolved, "type"))
                       ELSE "object"
      format == IF Truthy(Get(itemResolved, "format"))
                THEN " (" \o ToStr(Get(itemResolved, "format")) \o ")"
                ELSE ""
  IN IF isItemObject THEN "array of object"
     ELSE "array of " \o itemType \o format

\* refName "" stands for null
getTypeString(spec, schema, refName) ==
  IF ~Truthy(schema) THEN "unknown"
  ELSE LET rawType == RawType(schema)
           enum == Get(schema, "enum")
       IN IF Truthy(enum)
          THEN "string (enum: "
               \o JoinBar(SubSeq(enum.e, 1,
                    IF Len(enum.e) < ENUM_SHOWN THEN Len(enum.e) ELSE ENUM_SHOWN))
               \o (IF Len(enum.e) > ENUM_SHOWN THEN " | ..." ELSE "") \o ")"
          ELSE IF rawType = S("array") THEN ArrayTypeString(spec, schema)
          ELSE IF rawType = S("object") THEN "object"
          ELSE IF rawType \in {S("string"), S("integer"), S("number"), S("boolean")}
          THEN ToStr(rawType)
               \o (IF Truthy(Get(schema, "format"))
                   THEN " (" \o ToStr(Get(schema, "format")) \o ")" ELSE "")
          ELSE IF refName # "" THEN refName
          ELSE IF Truthy(rawType) THEN ToStr(rawType) ELSE "unknown"

IsSpace(tok) == tok \in {" ", "\n", "\t"}

\* desc.replace(/\s+/g, " "): every run of whitespace tokens becomes one " "
RECURSIVE Collapse(_)
Collapse(toks) ==
  IF toks = <<>> THEN <<>>
  ELSE IF IsSpace(toks[1])
       THEN IF Len(toks) > 1 /\ IsSpace(toks[2])
            THEN Collapse(Tail(toks))
            ELSE <<" ">> \o Collapse(Tail(toks))
       ELSE <<toks[1]>> \o Collapse(Tail(toks))

\* .trim()
Trim(toks) ==
  LET a == IF toks # <<>> /\ IsSpace(toks[1]) THEN Tail(toks) ELSE toks
  IN IF a # <<>> /\ IsSpace(a[Len(a)]) THEN SubSeq(a, 1, Len(a) - 1) ELSE a

\* the tokens of String(desc)
DescTokens(desc) == IF IsStr(desc) THEN desc.s ELSE <<ToStr(desc)>>

\* the normalized description, as tokens (<<>> is "")
normalizeDescription(desc) ==
  IF desc.k \in {"null", "undef"} THEN <<>>
  ELSE Trim(Collapse(DescTokens(desc)))

\* JSON.stringify(d), as tokens; JSON.stringify(undefined) prints as "undefined"
RECURSIVE JsonTokens(_)
RECURSIVE JsonList(_, _)
JsonTokens(d) ==
  CASE d.k = "str" ->
         <<"\"">> \o [i \in 1..Len(d.s) |->
                        IF d.s[i] = "\n" THEN "\\n"
                        ELSE IF d.s[i] = "\t" THEN "\\t" ELSE d.s[i]] \o <<"\"">>
    [] d.k = "seq" -> <<"[">> \o JsonList(d.e, FALSE) \o <<"]">>
    [] d.k = "map" -> <<"{">> \o JsonList(d.m, TRUE) \o <<"}">>
    [] OTHER -> <<ToStr(d)>>
JsonList(elems, keyed) ==
  IF elems = <<>> THEN <<>>
  ELSE (IF keyed
        THEN <<"\"" \o elems[1][1] \o "\":">> \o JsonTokens(elems[1][2])
        ELSE JsonTokens(elems[1]))
       \o (IF Len(elems) > 1 THEN <<",">> ELSE <<>>)
       \o JsonList(Tail(elems), keyed)

\* ---- the output: a text is the sequence of its lines, a line a record ----
\* indent counts the spaces before a line's first character; a description is
\* kept as tokens

INDENT == 2

Line(t, indent, name, type, required, desc) ==
  [t |-> t, indent |-> indent, name |-> name, type |-> type,
   required |-> required, desc |-> desc]
\* `${indent}<ResponseField name="${name}"${typeAttr(typeStr)}${requiredAttr(required)}>`
FieldOpen(indent, name, typeStr, required) ==
  Line("ResponseField", indent, name, typeStr, required, <<>>)
FieldClose(indent) == Line("/ResponseField", indent, "", "", FALSE, <<>>)
\* `${indent}<Expandable title="${title}">`
ExpandableOpen(indent, title) == Line("Expandable", indent, title, "", FALSE, <<>>)
ExpandableClose(indent) == Line("/Expandable", indent, "", "", FALSE, <<>>)
\* `${indent}${desc}`
TextLine(indent, desc) == Line("text", indent, "", "", FALSE, desc)
\* the empty string, as one element of a list of lines
EmptyLine == Line("", 0, "", "", FALSE, <<>>)
\* `<!-- Schema not found: ${schemaName} -->`
NotFoundLine(schemaName) == Line("comment", 0, schemaName, "", FALSE, <<>>)

\* text.split("\n"): the empty text splits into one empty string
SplitLines(text) == IF text = <<>> THEN <<EmptyLine>> ELSE text
\* lines.join("\n"): a lone empty string joins to the empty text
JoinLines(lines) == IF lines = <<EmptyLine>> THEN <<>> ELSE lines
\* .filter(Boolean)
FilterBoolean(lines) == SelectSeq(lines, LAMBDA l : l # EmptyLine)

\* Object.entries(v)
Entries(v) ==
  IF IsMap(v) THEN v.m
  ELSE IF IsArr(v) THEN [i \in 1..Len(v.e) |-> <<NumToString(i - 1), v.e[i]>>]
  ELSE <<>>

\* a || b
OrElse(a, b) == IF Truthy(a) THEN a ELSE b
\* a ?? b
Coalesce(a, b) == IF a.k \in {"null", "undef"} THEN b ELSE a

\* a faulty variant of line 154: only the first entry of `required` is read
RequiredSetFirst(resolved) ==
  LET r == Get(resolved, "required")
  IN IF Truthy(r) /\ IsArr(r) /\ r.e # <<>> /\ IsStr(r.e[1])
     THEN {ToStr(r.e[1])}
     ELSE {}

\* new Set(resolved.required || []), as the set of its strings
RequiredSet(resolved) ==
  LET r == Get(resolved, "required")
  IN IF Truthy(r) /\ IsArr(r)
     THEN {ToStr(r.e[i]) : i \in {j \in 1..Len(r.e) : IsStr(r.e[j])}}
     ELSE {}

\* lines 156-174: the description of one property, with its default
PropDescription(propResolved, propSchema) ==
  LET propDesc == normalizeDescription(
                    OrElse(Get(propResolved, "description"),
                           Get(propSchema, "description")))
      hasDefault == \/ Get(propResolved, "default") # Undef
                    \/ Get(propSchema, "default") # Undef
      d == Coalesce(Get(propResolved, "default"), Get(propSchema, "default"))
  IN IF propDesc # <<>> /\ hasDefault
     THEN propDesc \o <<" ", "Default:", " ">> \o JsonTokens(d) \o <<".">>
     ELSE IF propDesc = <<>> /\ hasDefault
     THEN <<"Default:", " ">> \o JsonTokens(d) \o <<".">>
     ELSE propDesc

\* propResolved?.__refName, "" when there is none
RefNameOf(propResolved) ==
  LET r == Get(propResolved, "__refName")
  IN IF IsStr(r) THEN ToStr(r) ELSE ""

\* propResolved?.properties || (propSchema?.$ref && resolveRef(...)?.properties)
HasNestedProperties(spec, propResolved, propSchema) ==
  \/ Truthy(Get(propResolved, "properties"))
  \/ /\ Truthy(Get(propSchema, "$ref"))
     /\ Truthy(Get(resolveRef(spec, Get(propSchema, "$ref")), "properties"))

\* lines 182-185
PropIsObject(spec, propResolved, propSchema) ==
  /\ Get(propResolved, "type") = S("object") \/ Truthy(Get(propSchema, "$ref"))
  /\ HasNestedProperties(spec, propResolved, propSchema)

\* lines 186-189
ItemSchema(spec, propResolved, propSchema) ==
  LET propItems == OrElse(Get(propResolved, "items"), Get(propSchema, "items"))
  IN IF Truthy(Get(propItems, "$ref"))
     THEN resolveRef(spec, Get(propItems, "$ref"))
     ELSE propItems

\* lines 190-191
PropIsArrayOfObject(spec, propResolved, propSchema) ==
  /\ Get(propResolved, "type") = S("array")
  /\ Truthy(Get(ItemSchema(spec, propResolved, propSchema), "properties"))

\* type === "object" || (Array.isArray(type) && type.includes("object"))
TypeIs(resolved, name) ==
  LET type == Get(resolved, "type")
  IN type = S(name)
     \/ (IsArr(type) /\ \E i \in 1..Len(type.e) : type.e[i] = S(name))

\* the title suffixes of lines 207 and 222; the source's en dash (U+2013) is
\* written "-" here
PROPERTIES_TITLE == " - properties"
ITEM_TITLE == " - item structure"

RECURSIVE schemaToExpandableContent(_, _, _, _)
RECURSIVE PropertyLines(_, _, _, _, _)
RECURSIVE AllPropertyLines(_, _, _, _)

\* the lines one iteration of the loop of lines 155-240 pushes
PropertyLines(spec, required, propName, propSchema, indent) ==
  LET propResolved == resolveSchema(spec, propSchema)
      propDesc == PropDescription(propResolved, propSchema)
      isRequired == propName \in required
      typeStr == getTypeString(spec, OrElse(propResolved, propSchema),
                               RefNameOf(propResolved))
  IN IF /\ PropIsObject(spec, propResolved, propSchema)
        /\ HasNestedProperties(spec, propResolved, propSchema)
     THEN LET innerSchema == IF Truthy(Get(propResolved, "properties"))
                             THEN propResolved
                             ELSE resolveRef(spec, Get(propSchema, "$ref"))
          IN <<FieldOpen(indent, propName, typeStr, isRequired),
               TextLine(indent + 2, Trim(Collapse(propDesc))),
               FieldClose(indent),
               ExpandableOpen(indent, propName \o PROPERTIES_TITLE)>>
             \o SplitLines(schemaToExpandableContent(spec, innerSchema, propName,
                                                     indent + INDENT))
             \o <<ExpandableClose(indent)>>
     ELSE IF PropIsArrayOfObject(spec, propResolved, propSchema)
     THEN <<FieldOpen(indent, propName,
                      getTypeString(spec, propResolved, ""), isRequired),
            TextLine(indent + 2, propDesc),
            FieldClose(indent),
            ExpandableOpen(indent, propName \o ITEM_TITLE)>>
          \o FilterBoolean(SplitLines(
               schemaToExpandableContent(spec,
                 ItemSchema(spec, propResolved, propSchema), "item",
                 indent + INDENT)))
          \o <<ExpandableClose(indent)>>
     ELSE <<FieldOpen(indent, propName, typeStr, isRequired),
            TextLine(indent + 2, propDesc),
            FieldClose(indent)>>

AllPropertyLines(spec, required, entries, indent) ==
  IF entries = <<>> THEN <<>>
  ELSE PropertyLines(spec, required, entries[1][1], entries[1][2], indent)
       \o AllPropertyLines(spec, required, Tail(entries), indent)

schemaToExpandableContent(spec, schema, schemaName, indent) ==
  LET resolved == resolveSchema(spec, schema)
  IN IF ~Truthy(resolved) THEN <<>>
     ELSE LET props == Get(resolved, "properties")
          IN IF TypeIs(resolved, "object") /\ Truthy(props) /\ IsObject(props)
             THEN JoinLines(AllPropertyLines(spec, RequiredSet(resolved),
                                             Entries(props), indent))
             ELSE <<>>

\* lines 261-264
HasProperties(resolved) ==
  /\ Get(resolved, "type") = S("object")
  /\ Truthy(Get(resolved, "properties"))
  /\ Entries(Get(resolved, "properties")) # <<>>

ROOT_INDENT == 4

\* the text of one snippet file, as its lines
schemaToMintlify(spec, schemaName) ==
  LET schema == Get(Get(Get(spec, "components"), "schemas"), schemaName)
  IN IF ~Truthy(schema) THEN <<NotFoundLine(schemaName)>>
     ELSE LET resolved == resolveSchema(spec, schema)
              desc == normalizeDescription(
                        OrElse(Get(resolved, "description"),
                               Get(schema, "description")))
              typeStr == getTypeString(spec, resolved, schemaName)
          IN <<FieldOpen(0, schemaName, typeStr, FALSE)>>
             \o (IF desc # <<>> THEN <<TextLine(2, desc)>> ELSE <<>>)
             \o (IF HasProperties(resolved)
                 THEN <<ExpandableOpen(2, "properties")>>
                      \o SplitLines(schemaToExpandableContent(
                                      spec, resolved, schemaName, ROOT_INDENT))
                      \o <<ExpandableClose(2)>>
                 ELSE <<>>)
             \o <<FieldClose(0)>>

\* ------------------------------------------------------------ the inputs
\* The documents the runs read: OpenAPI documents built from pools of
\* property schemas, top-level schemas and operations.

MaxProps == 2
MaxOps == 2
MaxNames == 2

StrT == Map(<< <<"type", S("string")>> >>)
IntT == Map(<< <<"type", S("integer")>> >>)

\* {type: object, properties: {x: string, y: integer}, required: [y]}
ItemObject ==
  Map(<< <<"type", S("object")>>,
         <<"properties", Map(<< <<"x", StrT>>, <<"y", IntT>> >>)>>,
         <<"required", Arr(<<S("y")>>)>> >>)

NullableArray == Arr(<<S("array"), S("null")>>)
NullableObject == Arr(<<S("object"), S("null")>>)

\* the schemas a property of schema A is drawn from
PropPool ==
  << StrT,
     Map(<< <<"type", S("string")>>, <<"format", S("date-time")>>,
            <<"description", Str(<<" ", "Start", " ", " ", "of", "\n", "shift", " ">>)>> >>),
     Map(<< <<"type", S("integer")>>, <<"default", Num(5)>> >>),
     Map(<< <<"type", S("string")>>, <<"deprecated", Bool(TRUE)>> >>),
     Map(<< <<"type", S("string")>>, <<"deprecated", Bool(FALSE)>> >>),
     Map(<< <<"$ref", Ref("B")>> >>),
     Map(<< <<"type", S("array")>>, <<"items", Map(<< <<"$ref", Ref("B")>> >>)>> >>),
     Map(<< <<"type", NullableArray>>, <<"items", Map(<< <<"$ref", Ref("B")>> >>)>> >>),
     Map(<< <<"type", S("array")>>, <<"items", ItemObject>> >>),
     Map(<< <<"type", NullableArray>>, <<"items", ItemObject>> >>),
     Map(<< <<"type", S("array")>>,
            <<"items", Map(<< <<"type", S("string")>>, <<"format", S("uuid")>> >>)>> >>),
     Map(<< <<"type", S("array")>>,
            <<"items", Map(<< <<"type", S("object")>>, <<"deprecated", Bool(TRUE)>>,
                              <<"properties", Map(<< <<"x", StrT>> >>)>> >>)>> >>),
     Map(<< <<"type", S("object")>>,
            <<"properties",
              Map(<< <<"x", StrT>>,
                     <<"y", Map(<< <<"type", S("object")>>,
                                   <<"properties", Map(<< <<"z", IntT>> >>)>>,
                                   <<"required", Arr(<<S("z")>>)>> >>)>> >>)>>,
            <<"required", Arr(<<S("x")>>)>> >>),
     Map(<< <<"type", NullableObject>>,
            <<"properties", Map(<< <<"x", StrT>> >>)>> >>),
     Map(<< <<"type", S("array")>> >>),
     Map(<< <<"type", S("array")>>,
            <<"items", Map(<< <<"$ref", Ref("Missing")>> >>)>> >>),
     Map(<< <<"enum", Arr(<<S("on"), S("off")>>)>> >>),
     Map(<< <<"$ref", Ref("C")>>, <<"description", S("Owner")>> >>),
     Map(<< <<"type", S("array")>>, <<"items", Map(<< <<"$ref", Ref("C")>> >>)>> >>),
     Map(<< <<"type", S("array")>>,
            <<"items", Map(<< <<"type", Arr(<<S("string"), S("null")>>)>>,
                              <<"format", S("date")>> >>)>> >>),
     Map(<< <<"type", S("integer")>>,
            <<"description", Str(<<"Count", " ", " ", "of", "\n", "items">>)>>,
            <<"default", Num(5)>> >>),
     Map(<< <<"type", S("string")>>,
            <<"default", Str(<<"a", " ", " ", "b">>)>> >>),
     Map(<< <<"type", S("object")>>, <<"description", S("Opts")>>,
            <<"default", Map(<<>>)>>,
            <<"properties", Map(<< <<"x", StrT>> >>)>> >>),
     Map(<< <<"$ref", Ref("B")>>, <<"default", Num(7)>> >>),
     Map(<< <<"type", S("string")>>, <<"description", S("Note")>>,
            <<"default", Null>> >>),
     Map(<< <<"type", S("array")>>, <<"deprecated", Bool(TRUE)>>,
            <<"items", StrT>> >>),
     Map(<< <<"type", S("array")>>,
            <<"items", Map(<< <<"type", S("string")>>,
                              <<"deprecated", Bool(FALSE)>> >>)>> >>),
     Map(<< <<"type", S("array")>>, <<"description", S("Shifts")>>,
            <<"items", Map(<< <<"$ref", Ref("B")>> >>)>> >>),
     Map(<< <<"type", S("array")>>,
            <<"items", Map(<< <<"type", S("string")>>,
                              <<"deprecated", Bool(TRUE)>> >>)>> >>) >>

\* the schemas components.schemas.B is drawn from
BPool ==
  << Map(<< <<"type", S("object")>>,
            <<"properties", Map(<< <<"x", StrT>>, <<"y", IntT>> >>)>>,
            <<"required", Arr(<<S("x")>>)>> >>),
     Map(<< <<"type", S("object")>>, <<"deprecated", Bool(TRUE)>>,
            <<"properties", Map(<< <<"x", StrT>> >>)>> >>),
     Map(<< <<"type", S("string")>>, <<"format", S("date")>> >>),
     Map(<< <<"properties", Map(<< <<"x", StrT>> >>)>> >>),
     Map(<< <<"type", S("object")>> >>),
     Map(<< <<"type", NullableObject>>,
            <<"properties", Map(<< <<"x", StrT>> >>)>> >>),
     Map(<< <<"type", S("object")>>, <<"properties", Map(<<>>)>> >>),
     Map(<< <<"$ref", Ref("C")>> >>),
     Map(<< <<"type", S("string")>>, <<"deprecated", Bool(TRUE)>> >>),
     Map(<< <<"type", S("array")>>, <<"items", ItemObject>> >>),
     Map(<< <<"type", S("string")>>, <<"description", S("Day")>>,
            <<"default", S("mon")>> >>),
     Map(<< <<"type", S("integer")>>, <<"default", Num(0)>> >>),
     Map(<< <<"type", S("string")>>, <<"default", Null>> >>) >>

\* components.schemas.C, the same in every document
SchemaC ==
  Map(<< <<"type", S("object")>>,
         <<"description", S("Person")>>,
         <<"properties",
           Map(<< <<"id", Map(<< <<"type", S("string")>>, <<"format", S("uuid")>> >>)>>,
                  <<"tags", Map(<< <<"type", S("array")>>, <<"items", StrT>> >>)>> >>)>>,
         <<"required", Arr(<<S("id")>>)>> >>)

PropName(i) == <<"a", "b", "c", "d", "e">>[i]

\* the type and the required list of schema A
AShapes ==
  << <<S("object"), Undef>>,
     <<S("object"), Arr(<<S("a")>>)>>,
     <<S("object"), Arr(<<S("b"), S("a")>>)>>,
     <<NullableObject, Arr(<<S("a")>>)>> >>

\* schema A: len properties, the pool's entries from the start-th on
SchemaA(start, len, shape) ==
  LET props == Map([i \in 1..len |->
                 <<PropName(i), PropPool[((start + i - 2) % Len(PropPool)) + 1]>>])
      base == Map(<< <<"type", AShapes[shape][1]>>, <<"properties", props>> >>)
  IN IF AShapes[shape][2] = Undef THEN base
     ELSE Put(base, "required", AShapes[shape][2])

\* the operation objects a path item's operations are drawn from
OpPool ==
  << Map(<< <<"summary", S("List")>> >>),
     Map(<< <<"summary", S("List")>>, <<"x-mint", Map(<<>>)>> >>),
     Map(<< <<"x-mint", Map(<< <<"href", S("/list")>> >>)>>, <<"summary", S("List")>> >>),
     Map(<< <<"x-mint", Map(<< <<"metadata", Map(<<>>)>> >>)>> >>),
     Map(<< <<"x-mint", Map(<< <<"metadata", Map(<< <<"mode", S("narrow")>>,
                                                   <<"title", S("T")>> >>)>>,
                              <<"href", S("/list")>> >>)>>,
            <<"operationId", S("list")>> >>),
     Map(<< <<"deprecated", Bool(TRUE)>>, <<"summary", S("Old")>> >>),
     Map(<< <<"deprecated", Bool(FALSE)>>,
            <<"parameters", Arr(<< Map(<< <<"name", S("p")>>, <<"deprecated", Bool(TRUE)>> >>),
                                   Map(<< <<"name", S("q")>> >>) >>)>>,
            <<"x-mint", Null>> >>),
     Map(<< <<"x-mint", Map(<< <<"deprecated", Bool(TRUE)>>,
                              <<"metadata", Map(<< <<"mode", S("narrow")>> >>)>> >>)>>,
            <<"summary", S("List")>> >>),
     Map(<< <<"responses",
              Map(<< <<"200", Map(<< <<"schema", Map(<< <<"$ref", Ref("B")>> >>)>>,
                                     <<"description", S("ok")>> >>)>> >>)>> >>) >>

MethodName(i) == <<"get", "post", "put", "delete", "patch">>[i]

\* a path item: keys that are no operations around n operations, the pool's
\* entries from the start-th on
PathItem(start, n) ==
  Map(<< <<"summary", S("Items")>>,
         <<"parameters", Arr(<< Map(<< <<"name", S("id")>>,
                                       <<"deprecated", Bool(TRUE)>> >>) >>)>> >>
      \o [i \in 1..n |->
            <<MethodName(i), OpPool[((start + i - 2) % Len(OpPool)) + 1]>>]
      \o << <<"x-internal", Map(<< <<"owner", S("team")>> >>)>> >>)

Document(rootEntries, paths, schemaA, schemaB) ==
  Map(<< <<"openapi", S("3.1.0")>> >> \o rootEntries
      \o << <<"paths", paths>>,
            <<"components",
              Map(<< <<"schemas",
                       Map(<< <<"A", schemaA>>, <<"B", schemaB>>,
                              <<"C", SchemaC>> >>)>> >>)>> >>)

RootEntries ==
  { <<>>, << <<"deprecated", Bool(TRUE)>> >>, << <<"deprecated", Bool(FALSE)>> >> }

\* documents that vary the schemas
RenderDocs ==
  { Document(<<>>, Map(<< <<"/items", PathItem(1, 1)>> >>),
             SchemaA(start, len, shape), BPool[b]) :
      start \in 1..Len(PropPool), len \in 1..MaxProps,
      shape \in 1..Len(AShapes), b \in 1..Len(BPool) }

\* documents that vary the paths and the root
FilterDocs ==
  { Document(root, Map(<< <<"/items", PathItem(start, n)>>,
                          <<"/other", PathItem(1, 1)>> >>),
             SchemaA(6, 2, 2), BPool[b]) :
      root \in RootEntries, start \in 1..Len(OpPool), n \in 1..MaxOps,
      b \in 1..2 }

\* no file at a path
NoFile == [k |-> "nofile"]

NameUniverse == {"A", "B", "Zed"}
\* the lists of requested schema names
NameLists ==
  UNION {[1..n -> NameUniverse] : n \in 0..MaxNames}

\* ------------------------------------------------------------ the program

VARIABLES
  pc,              \* where the run stands
  openapi,         \* the file openapi.yml: a parsed document, or NoFile
  schemaNames,     \* the schema names the Renderer is asked for
  stripped,        \* strip-deprecated.js main's `stripped` after stripDeprecated
  noDeprecated,    \* the file openapi.no-deprecated.yml
  status,          \* the exit status of the last child process
  spec,            \* schema-to-mintlify.js main's `spec`
  idx,             \* the position of the Renderer's loop in schemaNames
  snippets,        \* the files of snippets/api: schema name -> lines
  exitCode         \* the Driver's exit code, -1 while it runs

vars == <<pc, openapi, schemaNames, stripped, noDeprecated, status, spec, idx,
          snippets, exitCode>>

NoSnippets == [n \in {} |-> <<>>]

Init ==
  /\ pc = "step1"
  /\ \/ /\ openapi \in RenderDocs
        /\ schemaNames = <<"A", "Zed", "B">>
     \/ /\ openapi \in FilterDocs
        /\ schemaNames = <<"A">>
     \/ /\ openapi \in {NoFile, Document(<<>>, Map(<<>>), SchemaA(1, 1, 1), BPool[1])}
        /\ schemaNames \in NameLists
  /\ stripped = Undef
  /\ noDeprecated = NoFile
  /\ status = 0
  /\ spec = Undef
  /\ idx = 0
  /\ snippets = NoSnippets
  /\ exitCode = -1

\* the runs of the Driver over a missing or a present openapi.yml and every
\* list of requested names
DriverDocs ==
  { Document(<<>>, Map(<< <<"/items", PathItem(1, 1)>> >>),
             SchemaA(start, 1, 2), BPool[1]) : start \in 1..MaxProps + 1 }

DriverInit ==
  /\ pc = "step1"
  /\ openapi \in {NoFile} \cup DriverDocs
  /\ schemaNames \in NameLists
  /\ stripped = Undef
  /\ noDeprecated = NoFile
  /\ status = 0
  /\ spec = Undef
  /\ idx = 0
  /\ snippets = NoSnippets
  /\ exitCode = -1

\* strip-deprecated.js main, lines 108-111: no input file
FilterMissingInput ==
  /\ pc = "step1"
  /\ openapi = NoFile
  /\ status' = 1
  /\ pc' = "step1_exited"
  /\ UNCHANGED <<openapi, schemaNames, stripped, noDeprecated, spec, idx,
                 snippets, exitCode>>

\* strip-deprecated.js main, lines 113-120
FilterMain ==
  /\ pc = "step1"
  /\ openapi # NoFile
  /\ stripped' = StripStep(openapi)
  /\ noDeprecated' = Filter(openapi)
  /\ status' = 0
  /\ pc' = "step1_exited"
  /\ UNCHANGED <<openapi, schemaNames, spec, idx, snippets, exitCode>>

\* update-api.js run, lines 27-29, after step 1 failed
RunStep1Failed ==
  /\ pc = "step1_exited"
  /\ status # 0
  /\ exitCode' = status
  /\ pc' = "exited"
  /\ UNCHANGED <<openapi, schemaNames, stripped, noDeprecated, status, spec,
                 idx, snippets>>

\* a faulty variant of update-api.js lines 27-36: step 2 is started whatever
\* the status of step 1
RenderStartUnchecked ==
  /\ pc = "step1_exited"
  /\ spec' = noDeprecated
  /\ idx' = 1
  /\ pc' = "step2"
  /\ UNCHANGED <<openapi, schemaNames, stripped, noDeprecated, status,
                 snippets, exitCode>>

\* update-api.js lines 35-36 and schema-to-mintlify.js main, lines 280-286
RenderStart ==
  /\ pc = "step1_exited"
  /\ status = 0
  /\ spec' = noDeprecated
  /\ idx' = 1
  /\ pc' = "step2"
  /\ UNCHANGED <<openapi, schemaNames, stripped, noDeprecated, status,
                 snippets, exitCode>>

\* a faulty variant of line 292: the directory is emptied before the write
WriteFileAlone(files, name, content) ==
  [n \in {name} |-> content]

\* fs.writeFileSync(filePath, content): the file is created or overwritten
WriteFile(files, name, content) ==
  [n \in DOMAIN files \cup {name} |-> IF n = name THEN content ELSE files[n]]

\* one turn of the loop of schema-to-mintlify.js main, lines 288-294
RenderSchema ==
  /\ pc = "step2"
  /\ idx <= Len(schemaNames)
  /\ snippets' = WriteFile(snippets, schemaNames[idx],
                           schemaToMintlify(spec, schemaNames[idx]))
  /\ idx' = idx + 1
  /\ UNCHANGED <<pc, openapi, schemaNames, stripped, noDeprecated, status, spec,
                 exitCode>>

\* the loop ends, the Renderer exits with 0 and update-api.js prints "Done."
RenderDone ==
  /\ pc = "step2"
  /\ idx > Len(schemaNames)
  /\ status' = 0
  /\ exitCode' = 0
  /\ pc' = "done"
  /\ UNCHANGED <<openapi, schemaNames, stripped, noDeprecated, spec, idx,
                 snippets>>

Next ==
  \/ FilterMissingInput
  \/ FilterMain
  \/ RunStep1Failed
  \/ RenderStart
  \/ RenderSchema
  \/ RenderDone

Spec == Init /\ [][Next]_vars

\* spawnSync blocks until the child has exited and update-api.js runs on
\* from there: a failing Filter does exit, and run does act on the status it
\* gets. Nothing is assumed of the work of the two children (FilterMain,
\* RenderSchema), which no statement here requires to end.
FairSpec ==
  /\ DriverInit /\ [][Next]_vars
  /\ WF_vars(FilterMissingInput) /\ WF_vars(RunStep1Failed)
  /\ WF_vars(RenderStart) /\ WF_vars(RenderDone)

\* ------------------------------------------------------------ properties

\* the paths of a tree: a path is the sequence of the keys (and of the
\* indices, as decimal strings) leading from the root to a node
RECURSIVE AllPaths(_)
AllPaths(v) ==
  {<<>>} \cup
  (IF IsMap(v)
   THEN UNION {{<<v.m[i][1]>> \o q : q \in AllPaths(v.m[i][2])} : i \in 1..Len(v.m)}
   ELSE IF IsArr(v)
   THEN UNION {{<<NumToString(i - 1)>> \o q : q \in AllPaths(v.e[i])} : i \in 1..Len(v.e)}
   ELSE {})

\* the node at a path, Undef when the path leads nowhere
RECURSIVE At(_, _)
At(v, path) ==
  IF path = <<>> THEN v
  ELSE IF IsMap(v) THEN At(Get(v, path[1]), Tail(path))
  ELSE IF IsArr(v)
  THEN LET hit == {i \in 1..Len(v.e) : NumToString(i - 1) = path[1]}
       IN IF hit = {} THEN Undef ELSE At(v.e[CHOOSE i \in hit : TRUE], Tail(path))
  ELSE Undef

Front(path) == SubSeq(path, 1, Len(path) - 1)

\* the Filter has just written its output and exited with status 0
FilterHasRun == pc = "step1_exited" /\ noDeprecated # NoFile
\* the Renderer has written the last of its files
RenderHasRun == pc = "done"

\* some mapping of the tree, at any depth, has the key `deprecated`
RECURSIVE HasDeprecatedKey(_)
HasDeprecatedKey(v) ==
  IF IsMap(v)
  THEN Has(v, "deprecated") \/ \E i \in 1..Len(v.m) : HasDeprecatedKey(v.m[i][2])
  ELSE IF IsArr(v) THEN \E i \in 1..Len(v.e) : HasDeprecatedKey(v.e[i])
  ELSE FALSE

\* C1: the document the Filter writes holds no mapping, at any depth and in
\* any position (the root, the value of a key, an element of a sequence), that
\* has a key named `deprecated`.
C1_NoDeprecatedKeyAnywhere ==
  FilterHasRun => ~HasDeprecatedKey(noDeprecated)

\* the schemas of components.schemas whose own `deprecated` is true
DeprecatedSchemas(doc) ==
  LET schemas == Get(Get(doc, "components"), "schemas")
  IN IF IsMap(schemas)
     THEN {n \in KeySet(schemas) : Get(Get(schemas, n), "deprecated") = Bool(TRUE)}
     ELSE {}

\* val references schema name directly, or is an array schema whose items do
References(val, name) ==
  \/ Get(val, "$ref") = Ref(name)
  \/ Get(val, "type") = S("array") /\ Get(Get(val, "items"), "$ref") = Ref(name)

\* the name occurs in the tree, as a key or as a string
RECURSIVE Mentions(_, _)
Mentions(v, name) ==
  IF IsMap(v)
  THEN \E i \in 1..Len(v.m) : v.m[i][1] = name \/ Mentions(v.m[i][2], name)
  ELSE IF IsArr(v) THEN \E i \in 1..Len(v.e) : Mentions(v.e[i], name)
  ELSE v = S(name)

\* the keys of the input document whose value references a deprecated
\* schema: <<path of the mapping, key>>
RefsToDeprecated(doc) ==
  UNION {{<<path, P>> : P \in
            {Q \in (IF IsMap(At(doc, path)) THEN KeySet(At(doc, path)) ELSE {}) :
               \E name \in DeprecatedSchemas(doc) :
                  References(Get(At(doc, path), Q), name)}} :
         path \in AllPaths(doc)}

\* the schema a property belongs to: the mapping that holds the `properties`
\* mapping, and the mapping itself for any other key
EnclosingPath(path) ==
  IF path # <<>> /\ path[Len(path)] = "properties" THEN Front(path) ELSE path

\* C2 as stated: a property P that references a deprecated top-level schema
\* leaves no trace in the Filter's output: the key P is gone from its
\* mapping and P's name occurs nowhere in the enclosing schema, its
\* `required` list included.
C2_NoTraceOfDeprecatedRef ==
  FilterHasRun =>
    \A pp \in RefsToDeprecated(openapi) :
       LET enclosing == At(noDeprecated, EnclosingPath(pp[1]))
       IN enclosing # Undef => ~Mentions(enclosing, pp[2])

\* C2, the case met: one property referenced a deprecated schema directly,
\* another through its array items, and the first is still named in the
\* `required` list of their schema in the output
C2_Witness ==
  /\ FilterHasRun
  /\ \E pp, qq \in RefsToDeprecated(openapi) :
        /\ pp[1] = qq[1]
        /\ Has(Get(At(openapi, pp[1]), pp[2]), "$ref")
        /\ Has(Get(At(openapi, qq[1]), qq[2]), "items")
        /\ At(noDeprecated, EnclosingPath(pp[1])) # Undef
        /\ Mentions(Get(At(noDeprecated, EnclosingPath(pp[1])), "required"), pp[2])

\* C3: the Filter is idempotent: run on the document it wrote, it writes the
\* same document again.
C3_FilterIdempotent ==
  FilterHasRun => Filter(noDeprecated) = noDeprecated

\* the Filter removed content, and content marked deprecated remains in its
\* output (inside sequences), which the second run meets again
C3_Witness ==
  /\ FilterHasRun
  /\ stripped # openapi
  /\ noDeprecated # stripped
  /\ HasDeprecatedKey(noDeprecated)
  /\ RefsToDeprecated(openapi) # {}

\* the operations of a document: <<path key, method>>
Operations(doc) ==
  LET paths == Get(doc, "paths")
  IN IF IsMap(paths)
     THEN {<<paths.m[i][1], method>> : i \in 1..Len(paths.m),
                                      method \in OPERATION_METHODS}
          \cap {pm \in KeySet(paths) \X OPERATION_METHODS :
                  Has(Get(paths, pm[1]), pm[2])}
     ELSE {}

OperationAt(doc, pm) == Get(Get(Get(doc, "paths"), pm[1]), pm[2])

\* what is left of a mapping without one key; of anything else, nothing
Without(v, key) == IF IsMap(v) THEN Del(v, key) ELSE Map(<<>>)

\* C4: in the Filter's output every operation of every path item has
\* x-mint.metadata.mode = "wide"; the operation's other keys, the other keys
\* of an x-mint it had and the other keys of an x-mint.metadata it had are as
\* stripDeprecated left them.
C4_WideModeOnEveryOperation ==
  FilterHasRun =>
    \A pm \in Operations(noDeprecated) :
       LET before == OperationAt(stripped, pm)
           after == OperationAt(noDeprecated, pm)
       IN /\ Get(Get(Get(after, "x-mint"), "metadata"), "mode") = S("wide")
          /\ Del(after, "x-mint") = Del(before, "x-mint")
          /\ Keys(after) = IF Has(before, "x-mint") THEN Keys(before)
                           ELSE Append(Keys(before), "x-mint")
          /\ Without(Get(after, "x-mint"), "metadata")
               = Without(Get(before, "x-mint"), "metadata")
          /\ Without(Get(Get(after, "x-mint"), "metadata"), "mode")
               = Without(Get(Get(before, "x-mint"), "metadata"), "mode")

\* one operation had no x-mint, another an x-mint with a key beside metadata
\* and a metadata with a key beside mode, and both are wide now
C4_Witness ==
  /\ FilterHasRun
  /\ \E pm \in Operations(noDeprecated) :
        /\ ~Has(OperationAt(stripped, pm), "x-mint")
        /\ Get(Get(Get(OperationAt(noDeprecated, pm), "x-mint"), "metadata"), "mode")
             = S("wide")
  /\ \E pm \in Operations(noDeprecated) :
        LET xm == Get(OperationAt(stripped, pm), "x-mint")
        IN /\ Has(xm, "href")
           /\ Has(Get(xm, "metadata"), "title")
           /\ Get(Get(xm, "metadata"), "mode") = S("narrow")
           /\ Get(Get(Get(OperationAt(noDeprecated, pm), "x-mint"), "metadata"), "mode")
                = S("wide")

\* the effective type of a schema: its type, or the first entry of its type
\* union that is not "null"; "" when it has none
EffectiveType(schema) ==
  LET type == Get(schema, "type")
      rest == IF IsArr(type) THEN SelectSeq(type.e, LAMBDA x : x # S("null"))
              ELSE <<>>
  IN IF IsStr(type) THEN ToStr(type)
     ELSE IF rest # <<>> /\ IsStr(rest[1]) THEN ToStr(rest[1])
     ELSE ""

\* the top-level schema of that name, Undef when there is none
TopSchema(doc, name) == Get(Get(Get(doc, "components"), "schemas"), name)

\* the schema a reference to a top-level schema names, the schema itself when
\* it is no reference
Target(doc, schema) ==
  LET names == {n \in KeySet(Get(Get(doc, "components"), "schemas")) :
                  Get(schema, "$ref") = Ref(n)}
  IN IF names = {} THEN schema ELSE TopSchema(doc, CHOOSE n \in names : TRUE)

\* the object schemas of a document, by their paths
ObjectSchemaPaths(doc) ==
  {path \in AllPaths(doc) :
     LET s == At(doc, path)
     IN /\ IsMap(s) /\ ~Has(s, "$ref")
        /\ EffectiveType(s) = "object"
        /\ IsMap(Get(s, "properties"))}

\* the fields of a text at one indentation: <<name, required flag>> of each,
\* in the order of the text
FieldsAt(lines, indent) ==
  LET f == SelectSeq(lines, LAMBDA l : l.t = "ResponseField" /\ l.indent = indent)
  IN [i \in 1..Len(f) |-> <<f[i].name, f[i].required>>]

\* the properties a schema declares: <<name, member of its required list>> of
\* each, in declaration order
DeclaredFields(schema) ==
  LET props == Get(schema, "properties")
      req == Get(schema, "required")
  IN [i \in 1..Len(props.m) |->
        <<props.m[i][1],
          IsArr(req) /\ \E j \in 1..Len(req.e) : req.e[j] = S(props.m[i][1])>>]

\* the file written for a name wraps the fields of the schema's properties
RootExpanded(lines) ==
  \E i \in 1..Len(lines) : lines[i] = ExpandableOpen(2, "properties")

\* C5: the fields emitted for the properties of an object schema stand in the
\* declaration order of `properties`, one per property, and a field is marked
\* required exactly when its name is in the schema's `required` list; for the
\* properties of every schema the written files expand at their root, and for
\* every object schema of the document wherever it is rendered.
C5_FieldsInOrderAndRequired ==
  RenderHasRun =>
    /\ \A name \in DOMAIN snippets :
         RootExpanded(snippets[name]) =>
           FieldsAt(snippets[name], ROOT_INDENT)
             = DeclaredFields(Target(spec, TopSchema(spec, name)))
    /\ \A path \in ObjectSchemaPaths(spec) :
         FieldsAt(schemaToExpandableContent(spec, At(spec, path), "", ROOT_INDENT),
                  ROOT_INDENT)
           = DeclaredFields(At(spec, path))

\* the file of A holds a required field a before an optional field b, and A's
\* required list names another name first
C5_Witness ==
  /\ RenderHasRun
  /\ "A" \in DOMAIN snippets
  /\ FieldsAt(snippets["A"], ROOT_INDENT) = << <<"a", TRUE>>, <<"b", FALSE>> >>
  /\ \E path \in ObjectSchemaPaths(spec) :
        /\ Len(path) > 3
        /\ \E i \in 1..Len(DeclaredFields(At(spec, path))) :
              DeclaredFields(At(spec, path))[i][2]

\* the names of a list
Range(seq) == {seq[i] : i \in 1..Len(seq)}

\* C6: when the Renderer's run ends, every requested name has its one file;
\* the file of a name that is no schema holds only the "Schema not found"
\* line for it, and the file of every other name holds what rendering that
\* name alone gives, whatever names stand before or after it in the list.
C6_OneFilePerName ==
  RenderHasRun =>
    /\ DOMAIN snippets = Range(schemaNames)
    /\ \A name \in Range(schemaNames) :
         IF TopSchema(spec, name) = Undef
         THEN snippets[name] = <<NotFoundLine(name)>>
         ELSE /\ snippets[name] = schemaToMintlify(spec, name)
              /\ snippets[name][1] = FieldOpen(0, name, snippets[name][1].type, FALSE)
              /\ \A i \in 1..Len(snippets[name]) : snippets[name][i].t # "comment"

\* a name that is no schema stood between two schemas, and all three files
\* are there
C6_Witness ==
  /\ RenderHasRun
  /\ schemaNames = <<"A", "Zed", "B">>
  /\ snippets["Zed"] = <<NotFoundLine("Zed")>>
  /\ RootExpanded(snippets["A"])
  /\ RootExpanded(snippets["B"])

\* the lines between the first <Expandable title=...> of that indentation and
\* title and its closing line
ExpandableBody(lines, indent, title) ==
  LET opens == {i \in 1..Len(lines) : lines[i] = ExpandableOpen(indent, title)}
  IN IF opens = {} THEN [found |-> FALSE, body |-> <<>>]
     ELSE LET i == CHOOSE x \in opens : \A y \in opens : x <= y
              closes == {j \in (i + 1)..Len(lines) : lines[j] = ExpandableClose(indent)}
              j == CHOOSE x \in closes : \A y \in closes : x <= y
          IN [found |-> TRUE, body |-> SubSeq(lines, i + 1, j - 1)]

FieldNamesAt(lines, indent) ==
  [i \in 1..Len(FieldsAt(lines, indent)) |-> FieldsAt(lines, indent)[i][1]]

\* an object schema with properties
IsObjectWithProperties(schema) ==
  EffectiveType(schema) = "object" /\ IsMap(Get(schema, "properties"))

\* the property's effective type is array and its items are an object schema
\* with properties, inline or referenced
IsArrayOfObjects(doc, propSchema) ==
  LET p == Target(doc, propSchema)
  IN /\ EffectiveType(p) = "array"
     /\ IsObjectWithProperties(Target(doc, Get(p, "items")))

\* in lines, the rendering at that indentation of the properties of schema,
\* every array-of-objects property has its field and an Expandable
\* "<property> - item structure" holding one field for each property of the
\* item schema
ItemStructuresShown(doc, lines, schema, indent) ==
  \A i \in 1..Len(Get(schema, "properties").m) :
     LET P == Get(schema, "properties").m[i][1]
         ps == Get(schema, "properties").m[i][2]
         items == Target(doc, Get(Target(doc, ps), "items"))
         shown == ExpandableBody(lines, indent, P \o ITEM_TITLE)
     IN IsArrayOfObjects(doc, ps) =>
          /\ \E j \in 1..Len(lines) :
                /\ lines[j].t = "ResponseField" /\ lines[j].indent = indent
                /\ lines[j].name = P
          /\ shown.found
          /\ FieldNamesAt(shown.body, indent + INDENT) = Keys(Get(items, "properties"))

\* C7 as stated: every property whose effective type (a "null" entry of a
\* type union removed) is array and whose items are an object schema with
\* properties gets its field and an Expandable "<property> - item structure"
\* with one field for each property of the item schema.
C7_ItemStructureForArrayOfObjects ==
  RenderHasRun =>
    /\ \A name \in DOMAIN snippets :
         RootExpanded(snippets[name]) =>
           ItemStructuresShown(spec, snippets[name],
                               Target(spec, TopSchema(spec, name)), ROOT_INDENT)
    /\ \A path \in ObjectSchemaPaths(spec) :
         ItemStructuresShown(spec,
           schemaToExpandableContent(spec, At(spec, path), "", ROOT_INDENT),
           At(spec, path), ROOT_INDENT)

\* the array schemas of a document that declare no enum, by their paths
ArraySchemaPaths(doc) ==
  {path \in AllPaths(doc) :
     LET s == At(doc, path)
     IN IsMap(s) /\ EffectiveType(s) = "array" /\ ~Has(s, "enum")}

SchemaNames == {"A", "B", "C", "Missing"}
\* the name a reference to a top-level schema gives, "" for anything else
ReferencedName(ref) ==
  IF \E n \in SchemaNames : ref = Ref(n)
  THEN CHOOSE n \in SchemaNames : ref = Ref(n)
  ELSE ""

\* "array of <item-type>", with " (<format>)" when the item schema declares one
ArrayOfItemType(doc, schema) ==
  LET items == Get(schema, "items")
      item == Target(doc, items)
      itemType == IF Has(items, "$ref") THEN ReferencedName(Get(items, "$ref"))
                  ELSE IF IsStr(Get(items, "type")) THEN ToStr(Get(items, "type"))
                  ELSE "object"
  IN "array of " \o itemType
     \o (IF Has(item, "format") /\ Get(items, "$ref") # Ref("Missing")
         THEN " (" \o ToStr(Get(item, "format")) \o ")" ELSE "")

\* the type string C8 states: "array of object" for inline object items only
StatedArrayType(doc, schema) ==
  LET items == Get(schema, "items")
  IN IF /\ ~Has(items, "$ref")
        /\ Get(items, "type") = S("object") /\ IsMap(Get(items, "properties"))
     THEN "array of object"
     ELSE ArrayOfItemType(doc, schema)

\* the type string of the amended C8: "array of object" as well when the
\* items reference an object schema with properties
AmendedArrayType(doc, schema) ==
  LET item == Target(doc, Get(schema, "items"))
  IN IF Get(item, "type") = S("object") /\ IsMap(Get(item, "properties"))
     THEN "array of object"
     ELSE ArrayOfItemType(doc, schema)

\* the type attribute of the field of that name and indentation
FieldType(lines, indent, name) ==
  LET hit == {i \in 1..Len(lines) :
                /\ lines[i].t = "ResponseField" /\ lines[i].indent = indent
                /\ lines[i].name = name}
  IN IF hit = {} THEN "" ELSE lines[CHOOSE i \in hit : TRUE].type

\* the inline array properties of a schema: <<name, schema>>
ArrayProperties(schema) ==
  {pe \in Range(Get(schema, "properties").m) :
     IsMap(pe[2]) /\ ~Has(pe[2], "$ref") /\ ~Has(pe[2], "enum")
     /\ EffectiveType(pe[2]) = "array"}

\* C8 as stated: for an array schema without enum, getTypeString gives
\* "array of object" when the items are an inline object with properties and
\* "array of <item-type>" in every other case, the referenced schema's name
\* standing for a reference, a reference to an object schema with properties
\* included.
C8_ArrayTypeString ==
  RenderHasRun =>
    /\ \A path \in ArraySchemaPaths(spec) :
         getTypeString(spec, At(spec, path), "") = StatedArrayType(spec, At(spec, path))
    /\ \A name \in DOMAIN snippets :
         RootExpanded(snippets[name]) =>
           \A pe \in ArrayProperties(Target(spec, TopSchema(spec, name))) :
              FieldType(snippets[name], ROOT_INDENT, pe[1]) = StatedArrayType(spec, pe[2])

\* C8, amended: "array of object" when the item schema, inline or reached
\* through items.$ref, has type "object" and properties; "array of
\* <item-type>" in every other case, where <item-type> is the referenced
\* schema's name when items is a reference, else the item's declared type
\* when that is one string, else "object", followed by " (<format>)" when the
\* item schema declares a format.
C8_ArrayTypeStringResolved ==
  RenderHasRun =>
    /\ \A path \in ArraySchemaPaths(spec) :
         getTypeString(spec, At(spec, path), "") = AmendedArrayType(spec, At(spec, path))
    /\ \A name \in DOMAIN snippets :
         RootExpanded(snippets[name]) =>
           \A pe \in ArrayProperties(Target(spec, TopSchema(spec, name))) :
              FieldType(snippets[name], ROOT_INDENT, pe[1]) = AmendedArrayType(spec, pe[2])

\* the file of A shows "array of object" for a property whose items reference
\* an object schema with properties, and "array of B" for none
C8_Witness ==
  /\ RenderHasRun
  /\ "A" \in DOMAIN snippets
  /\ RootExpanded(snippets["A"])
  /\ \E pe \in ArrayProperties(TopSchema(spec, "A")) :
        /\ Get(Get(pe[2], "items"), "$ref") = Ref("B")
        /\ IsObjectWithProperties(TopSchema(spec, "B"))
        /\ FieldType(snippets["A"], ROOT_INDENT, pe[1]) = "array of object"

\* the property is an inline object with properties, or a reference to a
\* schema that has properties
IsNestedObject(doc, propSchema) ==
  IF Has(propSchema, "$ref")
  THEN IsMap(Get(Target(doc, propSchema), "properties"))
  ELSE Get(propSchema, "type") = S("object") /\ IsMap(Get(propSchema, "properties"))

\* in lines, the rendering at that indentation of the properties of schema,
\* every nested-object property has its field and an Expandable
\* "<property> - properties" holding, one level deeper, one field for each
\* property of the nested schema
NestedPropertiesShown(doc, lines, schema, indent) ==
  \A i \in 1..Len(Get(schema, "properties").m) :
     LET P == Get(schema, "properties").m[i][1]
         ps == Get(schema, "properties").m[i][2]
         shown == ExpandableBody(lines, indent, P \o PROPERTIES_TITLE)
     IN IsNestedObject(doc, ps) =>
          /\ \E j \in 1..Len(lines) :
                /\ lines[j].t = "ResponseField" /\ lines[j].indent = indent
                /\ lines[j].name = P
          /\ shown.found
          /\ FieldNamesAt(shown.body, indent + INDENT)
               = Keys(Get(Target(doc, ps), "properties"))

\* C9 as stated: every property that is an inline object with properties, or
\* a $ref to a schema that has properties, gets its field and an Expandable
\* "<property> - properties" with one field for each property of the nested
\* schema, one indentation level deeper, at every level of nesting.
C9_NestedPropertiesExpanded ==
  RenderHasRun =>
    /\ \A name \in DOMAIN snippets :
         RootExpanded(snippets[name]) =>
           NestedPropertiesShown(spec, snippets[name],
                                 Target(spec, TopSchema(spec, name)), ROOT_INDENT)
    /\ \A path \in ObjectSchemaPaths(spec) :
         \A indent \in {ROOT_INDENT, ROOT_INDENT + INDENT} :
            NestedPropertiesShown(spec,
              schemaToExpandableContent(spec, At(spec, path), "", indent),
              At(spec, path), indent)

\* C10 as stated: the file of an existing top-level schema holds one root
\* field for its name, and that field wraps an Expandable "properties" with
\* the fields of all its properties exactly when the schema's effective type
\* (a "null" entry of a type union ignored) is object and it has at least one
\* property; it has no nested section otherwise.
C10_RootFieldAndProperties ==
  RenderHasRun =>
    \A name \in DOMAIN snippets :
       LET lines == snippets[name]
           schema == Target(spec, TopSchema(spec, name))
           props == Get(schema, "properties")
       IN Truthy(TopSchema(spec, name)) =>
            /\ FieldNamesAt(lines, 0) = <<name>>
            /\ lines[1].t = "ResponseField" /\ lines[Len(lines)] = FieldClose(0)
            /\ RootExpanded(lines)
                 <=> (EffectiveType(schema) = "object" /\ IsMap(props) /\ props.m # <<>>)
            /\ RootExpanded(lines) =>
                 FieldNamesAt(ExpandableBody(lines, 2, "properties").body, ROOT_INDENT)
                   = Keys(props)
            /\ ~RootExpanded(lines) =>
                 \A i \in 1..Len(lines) : lines[i].t \notin {"Expandable", "/Expandable"}


\* the description shown for the field of that name and indentation: the text
\* line that follows its opening line, empty when none does
FieldDescription(lines, indent, name) ==
  LET hit == {i \in 1..Len(lines) :
                /\ lines[i].t = "ResponseField" /\ lines[i].indent = indent
                /\ lines[i].name = name}
      i == CHOOSE x \in hit : \A y \in hit : x <= y
  IN IF hit # {} /\ i < Len(lines) /\ lines[i + 1].t = "text"
     THEN lines[i + 1].desc
     ELSE <<>>

\* the schema, own or resolved through its reference, has a default
HasDefault(doc, schema) ==
  Has(Target(doc, schema), "default") \/ Has(schema, "default")

\* that default: the resolved schema's before the schema's own
DefaultOf(doc, schema) ==
  IF Has(Target(doc, schema), "default")
  THEN Get(Target(doc, schema), "default")
  ELSE Get(schema, "default")

\* the description C11 states for a field: the normalized description, and
\* "Default: <json-default>." after it, or alone, when the schema has a default
StatedDescription(doc, schema) ==
  LET desc == normalizeDescription(
                OrElse(Get(Target(doc, schema), "description"),
                       Get(schema, "description")))
      sentence == <<"Default:", " ">> \o JsonTokens(DefaultOf(doc, schema)) \o <<".">>
  IN IF ~HasDefault(doc, schema) THEN desc
     ELSE IF desc = <<>> THEN sentence
     ELSE desc \o <<" ">> \o sentence

\* C11 as stated: every field the Renderer emits, the root field and the
\* property fields alike, shows the normalized description of its schema
\* followed by " Default: <json-default>." when the schema (own or resolved
\* through its reference) has a default, exactly "Default: <json-default>."
\* when it has a default and no description, and no such sentence when it
\* has no default.
C11_DefaultSentence ==
  RenderHasRun =>
    \A name \in DOMAIN snippets :
       LET top == TopSchema(spec, name)
           props == Get(Target(spec, top), "properties")
       IN Truthy(top) =>
            /\ FieldDescription(snippets[name], 0, name) = StatedDescription(spec, top)
            /\ RootExpanded(snippets[name]) =>
                 \A i \in 1..Len(props.m) :
                    FieldDescription(snippets[name], ROOT_INDENT, props.m[i][1])
                      = StatedDescription(spec, props.m[i][2])

\* C11, the case met: the file of B is written for a schema B that has a
\* description and a default, and the file of A shows a property's default
C11_Witness ==
  /\ RenderHasRun
  /\ {"A", "B"} \subseteq DOMAIN snippets
  /\ Has(TopSchema(spec, "B"), "default")
  /\ Has(TopSchema(spec, "B"), "description")
  /\ RootExpanded(snippets["A"])
  /\ \E i \in 1..Len(Get(TopSchema(spec, "A"), "properties").m) :
        LET pe == Get(TopSchema(spec, "A"), "properties").m[i]
        IN /\ Has(pe[2], "default") /\ Has(pe[2], "description")
           /\ FieldDescription(snippets["A"], ROOT_INDENT, pe[1])
                = StatedDescription(spec, pe[2])


\* the keys of a document whose value is an array schema: <<path of the
\* mapping, key>>
ArrayKeys(doc) ==
  UNION {{<<path, P>> : P \in
            {Q \in (IF IsMap(At(doc, path)) THEN KeySet(At(doc, path)) ELSE {}) :
               LET v == Get(At(doc, path), Q)
               IN IsMap(v) /\ Get(v, "type") = S("array")}} :
         path \in AllPaths(doc)}

\* those whose items are an inline schema, no reference
InlineArrayKeys(doc) ==
  {pk \in ArrayKeys(doc) :
     LET items == Get(Get(At(doc, pk[1]), pk[2]), "items")
     IN IsMap(items) /\ ~Has(items, "$ref")}

\* the items of the array schema reference a deprecated top-level schema
ItemsRefDeprecated(doc, v) ==
  \E name \in DeprecatedSchemas(doc) : Get(Get(v, "items"), "$ref") = Ref(name)

RendererStarted == pc \in {"step2", "done"}

\* the Filter step has failed
FilterFailed == pc \in {"step1_exited", "exited"} /\ status # 0

\* C13: in every run of the Driver the Renderer step starts only after the
\* Filter step has exited with status 0; when the Filter step fails, the
\* missing input file being one way, the Driver ends with a status that is
\* not 0, the Renderer step never starts and no snippet file is written.
C13_DriverSequencing ==
  /\ [](RendererStarted => openapi # NoFile /\ noDeprecated # NoFile /\ spec = noDeprecated)
  /\ [](snippets # NoSnippets => RendererStarted)
  /\ [](pc = "exited" => exitCode # 0 /\ exitCode # -1)
  /\ [][pc' = "step2" /\ pc # "step2" => pc = "step1_exited" /\ status = 0]_vars
  /\ [][FilterFailed => FilterFailed' /\ ~RendererStarted' /\ snippets' = NoSnippets]_vars
  /\ (openapi = NoFile ~> (pc = "exited" /\ exitCode # 0))
  /\ (FilterFailed ~> (pc = "exited" /\ exitCode # 0))

\* the input file was missing and names were asked for: the Driver has ended
\* with status 1 and no file is written
C13_Witness ==
  /\ openapi = NoFile
  /\ schemaNames # <<>>
  /\ pc = "exited"
  /\ exitCode = 1
  /\ spec = Undef
  /\ snippets = NoSnippets

=============================================================================
